---- MODULE Spec2Model ----
(* Reply-tree expansion of snoowrap's VoteableContent:                      *)
(* expandReplies and _mutateAndExpandReplies (src/objects/VoteableContent.js *)
(* lines 150-192), run against a model of the three collaborators that the  *)
(* file calls but does not define: fetch, _clone({deep: true}), fetchMore.  *)
EXTENDS Integers, Sequences, FiniteSets, TLC

\* ------------------------------------------------------------------ bounds
\* Largest finite branching cap and depth cap tried as options.
MaxLimit == 2
MaxDepth == 2
\* Largest number of replies already loaded under the entity before the call.
MaxLoaded == 2
\* The finite backing thread is a comment chain with side replies: the
\* comments of the chain, down to level BackDepth - 1, have Width replies
\* each, of which the first continues the chain.
Width == 2
BackDepth == 2
\* Largest number of fetchMore requests that the service fails in one run.
MaxFailures == 1

\* ------------------------------------------------------------- the values
\* The default of both options (line 189). Infinity - n = Infinity.
Infinity == 1000

Min(a, b) == IF a <= b THEN a ELSE b

\* a - b in JavaScript numbers, for a finite b.
Sub(a, b) == IF a = Infinity THEN Infinity ELSE a - b

Range(s) == {s[i] : i \in 1..Len(s)}

\* An object is identified by who created it and by the comment it stands
\* for: "orig" nodes are the caller's, "clone" nodes are made by _clone,
\* "fetched" nodes are made by fetchMore. A comment is named by its path in
\* the backing thread (the thread's root is <<>>).
Tags == {"orig", "clone", "fetched"}
NoId == <<"none", <<>>>>
E == <<"orig", <<>>>>
NameOf(id) == id[2]

Submission(listing, fetched) ==
  [kind |-> "Submission", fetched |-> fetched, comments |-> listing]
Comment(listing, fetched) ==
  [kind |-> "Comment", fetched |-> fetched, replies |-> listing]

VARIABLES
  heap,      \* the objects: id -> record with kind, fetched, comments/replies
  limit,     \* options.limit of the call
  depth,     \* options.depth of the call
  backing,   \* "finite" or "endless": what the service can still supply
  pc,        \* the promise of expandReplies: start, fetching, expanding,
             \* fulfilled, rejected
  target,    \* the object expandReplies called _mutateAndExpandReplies on
  result,    \* the value the promise of expandReplies fulfilled with
  calls,     \* node -> the call of _mutateAndExpandReplies made on it
  inflight,  \* node -> the fetchMore request that call is awaiting
  requests,  \* node -> the fetchMore requests issued on its listing so far
  writes,    \* node -> number of assignments to its children field
  snap,      \* the heap right after the root refresh and the deep copy
  failures   \* number of failed fetchMore requests so far

vars == <<heap, limit, depth, backing, pc, target, result, calls, inflight,
          requests, writes, snap, failures>>

\* ------------------------------------------------------- pieces of the code
\* The base case tested with < in place of <=.
TerminalStrict(d) == d < 0

\* line 151
Terminal(d) == d <= 0

\* line 154
repliesKey(node) == IF node.kind = "Submission" THEN "comments" ELSE "replies"

\* The amount clamped at zero.
ShortfallClamped(l, len) == IF Sub(l, len) < 0 THEN 0 ELSE Sub(l, len)

\* line 155: the amount passed to fetchMore
Shortfall(l, len) == Sub(l, len)

\* Only the replies that are recursed into are kept.
AssignedSliced(replies, l) == SubSeq(replies, 1, Min(l, Len(replies)))

\* line 156: the value assigned to this[repliesKey]
Assigned(replies, l) == replies

\* Every reply is recursed into, the slice forgotten.
TargetsAll(replies, l) == replies

\* line 157: replies.slice(0, limit)
Targets(replies, l) == SubSeq(replies, 1, Min(l, Len(replies)))

\* The depth handed on undiminished.
ChildDepthSame(d) == d

\* line 157: the depth handed to each recursive call
ChildDepth(d) == Sub(d, 1)

\* The children listing of a node, whichever field holds it.
Children(h, n) == h[n][repliesKey(h[n])]

RECURSIVE Reach(_, _)
Reach(h, n) == {n} \cup UNION {Reach(h, c) : c \in Range(Children(h, n))}

\* ------------------------------------------------------- the collaborators
\* The backing thread is a long comment chain (the case the doc comment of
\* expandReplies names, line 163): a comment is on the chain when it is the
\* first reply of a comment on the chain, and only those have replies.
OnChain(name) == \A i \in 1..Len(name) : name[i] = 1

\* How many replies of the comment the service holds: none off the chain;
\* on it, Width down to the end of a finite chain, and more than any
\* request asks for when the supply is endless.
Avail(name) ==
  IF ~OnChain(name) THEN 0
  ELSE IF backing = "endless" THEN Infinity
  ELSE IF Len(name) < BackDepth THEN Width ELSE 0

\* Listing.fetchMore({amount}) on the listing of the comment `name`: the
\* items it adds. A non-positive amount adds nothing.
Supplied(name, listing, amount) ==
  IF amount <= 0 THEN 0
  ELSE LET rest == Sub(Avail(name), Len(listing))
       IN  IF rest <= 0 THEN 0 ELSE Min(amount, rest)

NewIds(name, listing, amount) ==
  [i \in 1..Supplied(name, listing, amount) |->
     <<"fetched", Append(name, Len(listing) + i)>>]

\* The listing fetchMore resolves with: the old items, then the new ones.
fetchMore(name, listing, amount) == listing \o NewIds(name, listing, amount)

\* fetch(): the entity's own data is refreshed in place.
Refresh(h, e) == [h EXCEPT ![e].fetched = TRUE]

CloneId(id) == <<"clone", NameOf(id)>>

\* _clone({deep: true}): a copy of every object reachable from e, whose
\* listings hold the copies.
DeepClone(h, e) ==
  LET src == Reach(h, e)
      copy(n) == LET key == repliesKey(h[n])
                     seq == h[n][key]
                 IN  [h[n] EXCEPT ![key] = [i \in 1..Len(seq) |-> CloneId(seq[i])]]
  IN  [m \in DOMAIN h \cup {CloneId(n) : n \in src} |->
         IF m \in DOMAIN h THEN h[m]
         ELSE copy(CHOOSE n \in src : CloneId(n) = m)]

\* ------------------------------------------------------------------- Init
Budgets ==
  ((0..MaxLimit) \X (0..MaxDepth)) \cup {<<5, 2>>, <<Infinity, Infinity>>}

\* The loaded tree under E: a replies of E, b replies of the first of them.
OrigHeap(kind, a, b) ==
  LET top == [i \in 1..a |-> <<"orig", <<i>>>>]
      sub == [j \in 1..b |-> <<"orig", <<1, j>>>>]
      ids == {E} \cup Range(top) \cup Range(sub)
  IN  [n \in ids |->
         IF n = E THEN
           IF kind = "Submission" THEN Submission(top, FALSE)
           ELSE Comment(top, FALSE)
         ELSE IF n = <<"orig", <<1>>>> THEN Comment(sub, TRUE)
         ELSE Comment(<<>>, TRUE)]

Init ==
  /\ backing \in {"finite", "endless"}
  /\ \E b \in Budgets :
       /\ limit = b[1]
       /\ depth = b[2]
       /\ backing = "endless" => (b[1] # Infinity /\ b[2] # Infinity)
  /\ \E kind \in {"Submission", "Comment"}, a \in 0..MaxLoaded, b \in 0..1 :
       /\ b > 0 => a > 0
       /\ a <= Avail(<<>>)
       /\ b <= Avail(<<1>>)
       /\ heap = OrigHeap(kind, a, b)
  /\ pc = "start"
  /\ target = NoId
  /\ result = NoId
  /\ calls = <<>>
  /\ inflight = <<>>
  /\ requests = [n \in DOMAIN heap |-> <<>>]
  /\ writes = [n \in DOMAIN heap |-> 0]
  /\ snap = heap
  /\ failures = 0

\* ------------------------------------------------- _mutateAndExpandReplies
\* Lines 150-155: a call on node n runs up to its first await. It returns at
\* once when the depth is used up, and otherwise issues one fetchMore.
Begin(h, n, l, d) ==
  IF Terminal(d) THEN
    [status |-> "resolved", sent |-> <<>>]
  ELSE LET key == repliesKey(h[n]) IN
    IF key \notin DOMAIN h[n] THEN
      [status |-> "rejected", sent |-> <<>>]
    ELSE
      [status |-> "awaiting",
       sent |-> <<[key |-> key, on |-> h[n][key],
                   amount |-> Shortfall(l, Len(h[n][key]))]>>]

\* The bookkeeping of the calls begun on the nodes ns in heap h, each with
\* budget (l, d), after the call on node `done` (if any) has settled with
\* status st.
Started(h, ns, l, d, done, st) ==
  /\ calls' =
       [m \in ns |-> [limit |-> l, depth |-> d,
                      status |-> Begin(h, m, l, d).status]]
       @@ (IF done \in DOMAIN calls
             THEN [calls EXCEPT ![done].status = st] ELSE calls)
  /\ inflight' =
       [m \in {k \in ns : calls'[k].status = "awaiting"} |->
          Begin(h, m, l, d).sent[1]]
       @@ [m \in DOMAIN inflight \ {done} |-> inflight[m]]
  /\ requests' =
       [m \in ns \cap DOMAIN inflight' |->
          (IF m \in DOMAIN requests THEN requests[m] ELSE <<>>)
          \o <<inflight'[m]>>]
       @@ requests
       @@ [m \in DOMAIN h |-> <<>>]

\* Lines 155-158, the continuation of the call on node n once its fetchMore
\* has resolved: the field is assigned, a call is begun on each of the first
\* `limit` replies, and the call returns without awaiting any of them.
Continue(n) ==
  LET req == inflight[n]
      c == calls[n]
      replies == fetchMore(NameOf(n), req.on, req.amount)
      new == Range(replies) \ DOMAIN heap
  IN  /\ heap' = [m \in new |-> Comment(<<>>, TRUE)]
                 @@ [heap EXCEPT ![n][req.key] = Assigned(replies, c.limit)]
      /\ writes' = [m \in new |-> 0] @@ [writes EXCEPT ![n] = @ + 1]
      /\ Started(heap', Range(Targets(replies, c.limit)), c.limit,
                 ChildDepth(c.depth), n, "resolved")

\* The expansion run on the entity itself, no copy made.
CopiedNone(h, e) == [heap |-> h, target |-> e]

\* Line 191: the object the expansion runs on, and the heap that holds it.
Copied(h, e) == [heap |-> DeepClone(h, e), target |-> CloneId(e)]

\* ---------------------------------------------------------------- actions
\* Lines 189-190: expandReplies is called on E and awaits this.fetch().
expandReplies ==
  /\ pc = "start"
  /\ pc' = "fetching"
  /\ UNCHANGED <<heap, limit, depth, backing, target, result, calls, inflight,
                 requests, writes, snap, failures>>

\* Line 191, once fetch() has resolved: E is refreshed, copied, and the
\* promise of the call on the copy becomes the promise of expandReplies.
fetchResolved ==
  /\ pc = "fetching"
  /\ LET s == Copied(Refresh(heap, E), E)
     IN  heap' = s.heap /\ target' = s.target
  /\ snap' = heap'
  /\ writes' = [m \in DOMAIN heap' |-> 0]
  /\ Started(heap', {target'}, limit, depth, NoId, "none")
  /\ LET st == calls'[target'].status
     IN  /\ pc' = IF st = "resolved" THEN "fulfilled"
                  ELSE IF st = "rejected" THEN "rejected" ELSE "expanding"
         /\ result' = IF st = "resolved" THEN target' ELSE NoId
  /\ UNCHANGED <<limit, depth, backing, failures>>

\* Line 190: fetch() fails, and the await throws.
fetchRejected ==
  /\ pc = "fetching"
  /\ pc' = "rejected"
  /\ UNCHANGED <<heap, limit, depth, backing, target, result, calls, inflight,
                 requests, writes, snap, failures>>

\* The fetchMore awaited by the call on node n resolves.
fetchMoreResolved(n) ==
  /\ n \in DOMAIN inflight
  /\ Continue(n)
  /\ pc' = IF n = target THEN "fulfilled" ELSE pc
  /\ result' = IF n = target THEN n ELSE result
  /\ UNCHANGED <<limit, depth, backing, target, snap, failures>>

\* The fetchMore awaited by the call on node n fails: line 155 throws and
\* the promise of that call is rejected.
fetchMoreRejected(n) ==
  /\ n \in DOMAIN inflight
  /\ failures < MaxFailures
  /\ failures' = failures + 1
  /\ Started(heap, {}, calls[n].limit, calls[n].depth, n, "rejected")
  /\ pc' = IF n = target THEN "rejected" ELSE pc
  /\ UNCHANGED <<heap, limit, depth, backing, target, result, writes, snap>>

Next ==
  \/ expandReplies
  \/ fetchResolved
  \/ fetchRejected
  \/ \E n \in DOMAIN inflight : fetchMoreResolved(n)
  \/ \E n \in DOMAIN inflight : fetchMoreRejected(n)

Spec == Init /\ [][Next]_vars

\* Every request in flight is eventually answered, one way or the other.
Settle ==
  \/ fetchResolved
  \/ \E n \in DOMAIN inflight : fetchMoreResolved(n)

SpecFair == Spec /\ WF_vars(Settle)

TypeOK ==
  /\ \A n \in DOMAIN heap : n[1] \in Tags
  /\ pc \in {"start", "fetching", "expanding", "fulfilled", "rejected"}
  /\ DOMAIN inflight \subseteq DOMAIN calls
  /\ DOMAIN calls \subseteq DOMAIN heap
  /\ \A n \in DOMAIN calls : (calls[n].status = "awaiting") <=> (n \in DOMAIN inflight)

\* ------------------------------------------------------------ vocabulary
IsPrefix(s, t) == Len(s) <= Len(t) /\ \A i \in 1..Len(s) : s[i] = t[i]

Names(seq) == [i \in 1..Len(seq) |-> NameOf(seq[i])]

\* The listing a node had before the expansion touched it: a node made by
\* fetchMore arrives with an empty listing.
Pre(n) == IF n \in DOMAIN snap THEN Children(snap, n) ELSE <<>>

\* The shape of the tree under n: the shapes of its children, in order.
RECURSIVE Shape(_, _)
Shape(h, n) ==
  [i \in 1..Len(Children(h, n)) |-> Shape(h, Children(h, n)[i])]

\* The distance of n below the nodes of `front`, which are at distance d;
\* -1 when n is not below them.
RECURSIVE Level(_, _, _, _)
Level(h, front, n, d) ==
  IF n \in front THEN d
  ELSE IF front = {} THEN -1
  ELSE Level(h, UNION {Range(Children(h, m)) : m \in front}, n, d + 1)

Finite == limit # Infinity /\ depth # Infinity

Pending == {n \in DOMAIN calls : calls[n].status = "awaiting"}

Quiescent ==
  /\ pc \in {"fulfilled", "rejected"}
  /\ DOMAIN inflight = {}
  /\ Pending = {}

\* ------------------------------------------------------------------ C1
\* C1: expandReplies never changes E. In every state, every object reachable
\* from E is as it was right after the root refresh, and every assignment to
\* a children field was made on an object of the copy.
OriginalUntouched ==
  /\ \A n \in Reach(snap, E) : n \in DOMAIN heap /\ heap[n] = snap[n]
  /\ \A n \in DOMAIN writes : writes[n] > 0 => n[1] \in {"clone", "fetched"}

\* The call fulfilled with a copy that was written to and that has more
\* replies than E has.
OriginalUntouchedWitness ==
  /\ pc = "fulfilled"
  /\ result # E
  /\ writes[result] > 0
  /\ Len(Children(heap, result)) > Len(Children(heap, E))
  /\ Len(Children(heap, E)) > 0

\* ------------------------------------------------------------------ C2
\* C2: when the promise of expandReplies fulfills, no call of
\* _mutateAndExpandReplies is still pending and no fetchMore is in flight.
JoinBarrier ==
  pc = "fulfilled" => (Pending = {} /\ DOMAIN inflight = {})

\* ------------------------------------------------------------------ C3
\* C3: once a fetchMore of the expansion has failed, at any level, the
\* promise of expandReplies is not fulfilled.
FailurePropagates ==
  (\E n \in DOMAIN calls : calls[n].status = "rejected") => pc # "fulfilled"

\* ------------------------------------------------------------------ C4
\* C4: every reply of the original tree is in the expansion's tree, under
\* the node of the same name, its siblings in the same order before it; and
\* a step replaces a listing only by one that extends it.
PreservedInCopy ==
  target # NoId =>
    \A o \in Reach(snap, E) :
      \E c \in Reach(heap, target) :
        /\ NameOf(c) = NameOf(o)
        /\ IsPrefix(Names(Children(snap, o)), Names(Children(heap, c)))

ListingsOnlyGrow ==
  \A n \in DOMAIN heap :
    /\ n \in DOMAIN heap'
    /\ IsPrefix(Children(heap, n), Children(heap', n))

Preservation == []PreservedInCopy /\ [][ListingsOnlyGrow]_vars

\* A node with more loaded replies than the cap was expanded, and kept them.
PreservationWitness ==
  /\ pc = "fulfilled"
  /\ depth > 0
  /\ Len(Children(snap, E)) > limit
  /\ writes[result] = 1
  /\ Len(Children(heap, result)) = Len(Children(snap, E))

\* ------------------------------------------------------------------ C5
\* C5: with both options defaulted and a finite thread, the tree the promise
\* fulfills with has every available reply loaded at every node.
Complete(h, n) ==
  \A m \in Reach(h, n) : Len(Children(h, m)) = Avail(NameOf(m))

DefaultsLoadEverything ==
  (pc = "fulfilled" /\ limit = Infinity /\ depth = Infinity /\ backing = "finite")
    => Complete(heap, result)

\* What the code does reach with the defaults: the tree is complete once
\* every call has settled, if no request failed.
DefaultsCompleteWhenQuiet ==
  (Quiescent /\ pc = "fulfilled" /\ failures = 0
     /\ limit = Infinity /\ depth = Infinity /\ backing = "finite")
    => Complete(heap, result)

\* ------------------------------------------------------------------ C6
\* C6: with depth 0 no fetchMore is issued, and the tree returned has the
\* shape of the loaded tree under E.
DepthZeroIdentity ==
  depth = 0 =>
    /\ \A n \in DOMAIN requests : requests[n] = <<>>
    /\ pc = "fulfilled" =>
         /\ Shape(heap, result) = Shape(snap, E)
         /\ Cardinality(Reach(heap, result)) = Cardinality(Reach(snap, E))

DepthZeroWitness ==
  /\ depth = 0
  /\ pc = "fulfilled"
  /\ Cardinality(Reach(heap, result)) >= 3
  /\ Avail(<<>>) > Len(Children(heap, result))

\* ------------------------------------------------------------------ C7
\* C7: with finite options, a recursive call has a smaller depth than its
\* caller, a call with depth <= 0 issues no fetch and makes no call, and
\* every expansion reaches a state with nothing pending.
DepthDecreases ==
  Finite =>
    \A n \in DOMAIN calls :
      /\ calls[n].depth <= 0 =>
           /\ requests[n] = <<>>
           /\ \A c \in Range(Children(heap, n)) : c \notin DOMAIN calls
      /\ \A c \in Range(Children(heap, n)) \cap DOMAIN calls :
           calls[c].depth < calls[n].depth

Termination ==
  /\ []DepthDecreases
  /\ (Finite /\ pc = "fetching") ~> Quiescent

\* An expansion over an endless supply, with limit 2 and depth 2, is over:
\* the root, its two replies and the two replies fetched under the first.
TerminationWitness ==
  /\ Finite
  /\ backing = "endless"
  /\ limit = 2
  /\ depth = 2
  /\ Quiescent
  /\ pc = "fulfilled"
  /\ Cardinality(DOMAIN calls) = 5
  /\ \E n \in DOMAIN calls : calls[n].depth = 0 /\ n[1] = "fetched"

\* ------------------------------------------------------------------ C8
\* C8: a call that has continued with depth > 0 has begun a call, with the
\* same limit and depth - 1, on exactly the first `limit` replies of its
\* listing; the replies after them are there with their subtrees as they
\* were, no call and no fetchMore on any node of them.
BranchingCap ==
  \A n \in DOMAIN calls :
    (calls[n].depth > 0 /\ calls[n].status = "resolved") =>
      LET L == Children(heap, n) IN
        /\ IsPrefix(Pre(n), L)
        /\ \A i \in 1..Len(L) :
             IF i <= calls[n].limit
               THEN /\ L[i] \in DOMAIN calls
                    /\ calls[L[i]].limit = calls[n].limit
                    /\ calls[L[i]].depth = Sub(calls[n].depth, 1)
             ELSE \A m \in Reach(heap, L[i]) :
                    /\ m \notin DOMAIN calls
                    /\ requests[m] = <<>>
                    /\ writes[m] = 0
                    /\ m \in DOMAIN snap
                    /\ heap[m] = snap[m]

\* Two loaded replies, limit 1: both are there, only the first was expanded.
BranchingCapWitness ==
  /\ limit = 1
  /\ depth = 2
  /\ pc = "fulfilled"
  /\ Len(Children(snap, E)) = 2
  /\ Len(Children(heap, result)) = 2
  /\ LET L == Children(heap, result) IN
       /\ L[1] \in DOMAIN calls
       /\ calls[L[1]].status = "resolved"
       /\ writes[L[1]] = 1
       /\ L[2] \notin DOMAIN calls

\* ------------------------------------------------------------------ C9
\* C9: a node called with depth > 0 has had exactly one fetchMore, on the
\* field of its kind, for limit minus the length its listing had, also when
\* that is zero or negative (the listing then comes back as it was), and one
\* assignment to the field once the call has continued; no other node has had
\* a fetchMore or an assignment. For a comment with one reply that has none,
\* limit 5 and depth 2: one request for 4 on the root, one for 5 on each of
\* the at most 5 replies, none below.
ScenarioCase ==
  /\ limit = 5
  /\ depth = 2
  /\ snap[E].kind = "Comment"
  /\ Len(Children(snap, E)) = 1
  /\ Len(Children(snap, Children(snap, E)[1])) = 0

Amounts(n) == [i \in 1..Len(requests[n]) |-> requests[n][i].amount]

OneFetchPerNode ==
  /\ \A n \in DOMAIN heap :
       IF n \in DOMAIN calls /\ calls[n].depth > 0
         THEN /\ Len(requests[n]) = 1
              /\ requests[n][1].amount = Sub(calls[n].limit, Len(Pre(n)))
              /\ requests[n][1].key =
                   (IF heap[n].kind = "Submission" THEN "comments" ELSE "replies")
              /\ writes[n] = (IF calls[n].status = "resolved" THEN 1 ELSE 0)
              /\ calls[n].status # "resolved" => Children(heap, n) = Pre(n)
              /\ (calls[n].status = "resolved" /\ requests[n][1].amount <= 0)
                   => Children(heap, n) = Pre(n)
         ELSE requests[n] = <<>> /\ writes[n] = 0
  /\ (ScenarioCase /\ target # NoId) =>
       /\ Amounts(target) = <<4>>
       /\ Len(Children(heap, target)) <= 5
       /\ \A c \in Range(Children(heap, target)) :
            /\ Amounts(c) \in {<<>>, <<5>>}
            /\ calls[target].status = "resolved" => Amounts(c) = <<5>>
            /\ \A g \in Range(Children(heap, c)) : requests[g] = <<>>

\* The scenario has run to its end over an endless supply: five replies
\* under the root, a request for 5 made on each, five fetched under the first.
OneFetchWitness ==
  /\ ScenarioCase
  /\ backing = "endless"
  /\ pc = "fulfilled"
  /\ Pending = {}
  /\ failures = 0
  /\ Len(Children(heap, result)) = 5
  /\ \A c \in Range(Children(heap, result)) : Amounts(c) = <<5>>
  /\ Len(Children(heap, Children(heap, result)[1])) = 5

\* ------------------------------------------------------------------ C10
\* C10: a fetchMore is issued only on a node less than `depth` levels below
\* the root of the copy; a node called with depth <= 0 has its field
\* unwritten; and requests come after the copy, which is made of the
\* refreshed entity.
DepthBudget ==
  /\ \A n \in DOMAIN heap :
       requests[n] # <<>> =>
         /\ target # NoId
         /\ Level(heap, {target}, n, 0) >= 0
         /\ Level(heap, {target}, n, 0) < depth
  /\ \A n \in DOMAIN calls : calls[n].depth <= 0 => writes[n] = 0
  /\ target # NoId =>
       /\ heap[E].fetched
       /\ heap[target].fetched
       /\ target \in DOMAIN snap

\* With depth 2, a node one level down was fetched on and a node two levels
\* down was called and left alone.
DepthBudgetWitness ==
  /\ depth = 2
  /\ pc = "fulfilled"
  /\ \E n \in DOMAIN calls :
       /\ Level(heap, {target}, n, 0) = 1
       /\ writes[n] = 1
       /\ Len(Children(heap, n)) > 0
       /\ \A c \in Range(Children(heap, n)) :
            c \in DOMAIN calls /\ calls[c].depth = 0 /\ writes[c] = 0

====
